---- MODULE Spec2Model ----
(***************************************************************************)
(* Model of the sales dashboard: the Flask page handler index()            *)
(* (src/app/main.py), the DatabaseConnector (src/app/database.py) and the  *)
(* dashboard builder create_interactive_dashboard / create_sales_plot      *)
(* (src/app/visualization.py).                                             *)
(*                                                                         *)
(* One request is modelled from the construction of the connector to the   *)
(* return (or raise) of the handler.  Every call on the database is one    *)
(* step, because its result is chosen by the database and not by the       *)
(* program: the rows returned for a product id may differ from one call to *)
(* the next, and any query may raise a driver error.                       *)
(***************************************************************************)
EXTENDS Integers, Sequences, FiniteSets, TLC

\* ------------------------------------------------------------------ bounds
\* Longest product list the catalog query returns.
MaxProducts == 2
\* Longest row list one sales query returns during a request.
MaxRows == 2
\* Longest row list handed to the plot functions when they are run alone.
MaxSeries == 3

\* ------------------------------------------------------- input domains
\* Rows of the products table: (product_id, product_name).
ProductRows ==
    { [product_id |-> 1, product_name |-> "A"],
      [product_id |-> 2, product_name |-> "B"] }

\* Rows of the sales_data table a request can see: (date, sales); the
\* second one is a return.
SalesRows ==
    { [date |-> 1, sales |-> 2],
      [date |-> 2, sales |-> -1] }

\* Values of the sales_data.date column.
Dates == {1, 2}

\* Values of the sales_data.sales column: returns, nothing sold, sales.
Amounts == {-1, 0, 2}

\* Exceptions a psycopg2 call can raise.
DbErrors == {"OperationalError", "DatabaseError"}

\* Exceptions the template / figure serialisation can raise.
RenderErrors == {"TemplateError"}

None == "None"

\* No exception in flight.
NoException == [type |-> None]

\* An exception of the given class, as raised by the driver or the renderer;
\* it carries nothing but what the raising library put in it.
Exception(type) == [type |-> type]

\* dashboard_html / response before they are assigned.
NoHtml == [html |-> None]
NoResponse == [page |-> None]

SeqsUpTo(S, n) == UNION { [1..k -> S] : k \in 0..n }

\* Results of SELECT product_id, product_name FROM products, as the list of
\* dictionaries get_all_products returns.
get_all_products == SeqsUpTo(ProductRows, MaxProducts)

IsSortedByDate(rows) ==
    \A a, b \in 1..Len(rows) : a < b => rows[a].date <= rows[b].date

\* Results of SELECT date, sales ... ORDER BY date, as the list of
\* dictionaries get_sales_data returns.
get_sales_data ==
    { rows \in SeqsUpTo(SalesRows, MaxRows) : IsSortedByDate(rows) }

\* The sales_data arguments create_sales_plot is run on when it is called
\* on its own: any rows in date order.
SeriesInputs ==
    { rows \in SeqsUpTo([date : Dates, sales : Amounts], MaxSeries) :
        IsSortedByDate(rows) }

\* ------------------------------------------------- visualization.py
\* dates = [item['date'] for item in sales_data]
DatesOf(rows) == [k \in 1..Len(rows) |-> rows[k].date]

\* sales = [item['sales'] for item in sales_data]
SalesOf(rows) == [k \in 1..Len(rows) |-> rows[k].sales]

\* Mutant of AddSale: `running_total = sale` in place of `+=`.
AddSale_assign(running_total, sale) == sale

\* One pass of the body of `for sale in sales`: running_total += sale.
AddSale(running_total, sale) == running_total + sale

\* The loop `for sale in sales: running_total += sale;
\* cumulative_sales.append(running_total)`, from position k on.
RECURSIVE CumulativeLoop(_, _, _, _)
CumulativeLoop(sales, k, running_total, cumulative_sales) ==
    IF k > Len(sales)
    THEN cumulative_sales
    ELSE LET t == AddSale(running_total, sales[k])
         IN  CumulativeLoop(sales, k + 1, t, Append(cumulative_sales, t))

\* Mutant of cumulative_sales: the list starts as [0] instead of [].
cumulative_sales_seeded(sales) == CumulativeLoop(sales, 1, 0, << 0 >>)

\* cumulative_sales = []; running_total = 0; for sale in sales: ...
cumulative_sales(sales) == CumulativeLoop(sales, 1, 0, << >>)

\* f'Cumulative Sales Over Time - {product_name}'
Title(product_name) ==
    [prefix |-> "Cumulative Sales Over Time - ", product_name |-> product_name]

\* create_sales_plot(sales_data, product_name): one trace and a title.
create_sales_plot(rows, product_name) ==
    [ x     |-> DatesOf(rows),
      y     |-> cumulative_sales(SalesOf(rows)),
      title |-> Title(product_name),
      updatemenus |-> << >> ]

\* The dict appended to buttons for one product.
Button(product, rows) ==
    [ label |-> product.product_name,
      x     |-> DatesOf(rows),
      y     |-> cumulative_sales(SalesOf(rows)),
      title |-> Title(product.product_name) ]

NoProducts == [html |-> "<p>No products available</p>"]

\* fig.update_layout(updatemenus=[dict(buttons=buttons, ...)]) followed by
\* fig.to_html(include_plotlyjs='cdn', div_id='sales-plot').
to_html(f, bs) ==
    [ html   |-> "figure",
      div_id |-> "sales-plot",
      fig    |-> [f EXCEPT !.updatemenus = bs] ]

\* ---------------------------------------------------------------- state
VARIABLES
    pc,             \* position of the handler
    connection,     \* DatabaseConnector.connection: None or "open"
    products,       \* index(): products
    sales_data,     \* create_interactive_dashboard: sales_data
    fig,            \* create_interactive_dashboard: fig
    buttons,        \* create_interactive_dashboard: buttons
    i,              \* position of `for product in products` (1-based)
    dashboard_html, \* value returned by create_interactive_dashboard
    response,       \* value returned by index()
    exc,            \* exception in flight, NoException if none
    calls           \* the calls made on the connector, in order

vars == << pc, connection, products, sales_data, fig, buttons, i,
           dashboard_html, response, exc, calls >>

\* DatabaseConnector.__init__: self.connection = None.
Init ==
    /\ pc = "connect"
    /\ connection = None
    /\ products = << >>
    /\ sales_data = << >>
    /\ fig = None
    /\ buttons = << >>
    /\ i = 0
    /\ dashboard_html = NoHtml
    /\ response = NoResponse
    /\ exc = NoException
    /\ calls = << >>

\* A call recorded in `calls`.
Call(op, idx, pid, out) == [op |-> op, idx |-> idx, product_id |-> pid, out |-> out]

Ok(v) == [ok |-> TRUE, value |-> v]
Err(e) == [ok |-> FALSE, value |-> e]

\* ------------------------------------------------------------ database.py
\* db.connect() succeeds: self.connection = psycopg2.connect(...).
ConnectOk ==
    /\ pc = "connect"
    /\ connection' = "open"
    /\ calls' = Append(calls, Call("connect", 0, 0, Ok("open")))
    /\ pc' = "get_all_products"
    /\ UNCHANGED << products, sales_data, fig, buttons, i, dashboard_html,
                    response, exc >>

\* db.connect() raises: it is called before the try block, so the handler
\* propagates the exception without reaching finally.
ConnectFail ==
    /\ pc = "connect"
    /\ \E e \in DbErrors :
         /\ exc' = Exception(e)
         /\ calls' = Append(calls, Call("connect", 0, 0, Err(e)))
    /\ pc' = "raised"
    /\ UNCHANGED << connection, products, sales_data, fig, buttons, i,
                    dashboard_html, response >>

\* disconnect(): if self.connection: close(); self.connection = None.
disconnect(conn) == IF conn # None THEN None ELSE conn

\* ---------------------------------------------------------------- main.py
\* products = db.get_all_products() returns.
GetAllProductsOk ==
    /\ pc = "get_all_products"
    /\ connection # None
    /\ \E ps \in get_all_products :
         /\ products' = ps
         /\ calls' = Append(calls, Call("get_all_products", 0, 0, Ok(ps)))
    /\ pc' = "dashboard"
    /\ UNCHANGED << connection, sales_data, fig, buttons, i, dashboard_html,
                    response, exc >>

\* products = db.get_all_products() raises: control goes to finally.
GetAllProductsFail ==
    /\ pc = "get_all_products"
    /\ \E e \in (IF connection = None THEN {"AttributeError"} ELSE DbErrors) :
         /\ exc' = Exception(e)
         /\ calls' = Append(calls, Call("get_all_products", 0, 0, Err(e)))
    /\ pc' = "finally"
    /\ UNCHANGED << connection, products, sales_data, fig, buttons, i,
                    dashboard_html, response >>

\* ------------------------------------- create_interactive_dashboard
\* Mutant of DashboardNoProducts: the emptiness test is missing, so
\* products[0] raises IndexError.
DashboardNoProducts_unguarded ==
    /\ pc = "dashboard"
    /\ products = << >>
    /\ exc' = Exception("IndexError")
    /\ pc' = "finally"
    /\ UNCHANGED << connection, products, sales_data, fig, buttons, i,
                    dashboard_html, response, calls >>

\* if not products: return "<p>No products available</p>"
DashboardNoProducts ==
    /\ pc = "dashboard"
    /\ products = << >>
    /\ dashboard_html' = NoProducts
    /\ pc' = "render"
    /\ UNCHANGED << connection, products, sales_data, fig, buttons, i,
                    response, exc, calls >>

\* Mutant of FirstFetchOk: the initial chart is built for products[-1].
FirstFetchOk_last ==
    /\ pc = "dashboard"
    /\ products # << >>
    /\ connection # None
    /\ \E rows \in get_sales_data :
         /\ sales_data' = rows
         /\ fig' = create_sales_plot(rows, products[Len(products)].product_name)
         /\ calls' = Append(calls,
                Call("get_sales_data", Len(products),
                     products[Len(products)].product_id, Ok(rows)))
    /\ buttons' = << >>
    /\ i' = 1
    /\ pc' = "loop"
    /\ UNCHANGED << connection, products, dashboard_html, response, exc >>

\* first_product = products[0]
\* sales_data = db_connector.get_sales_data(first_product['product_id'])
\* fig = create_sales_plot(sales_data, first_product['product_name'])
FirstFetchOk ==
    /\ pc = "dashboard"
    /\ products # << >>
    /\ connection # None
    /\ \E rows \in get_sales_data :
         /\ sales_data' = rows
         /\ fig' = create_sales_plot(rows, products[1].product_name)
         /\ calls' = Append(calls,
                Call("get_sales_data", 1, products[1].product_id, Ok(rows)))
    /\ buttons' = << >>
    /\ i' = 1
    /\ pc' = "loop"
    /\ UNCHANGED << connection, products, dashboard_html, response, exc >>

\* The first get_sales_data raises: the exception leaves
\* create_interactive_dashboard unchanged and control goes to finally.
FirstFetchFail ==
    /\ pc = "dashboard"
    /\ products # << >>
    /\ \E e \in (IF connection = None THEN {"AttributeError"} ELSE DbErrors) :
         /\ exc' = Exception(e)
         /\ calls' = Append(calls,
                Call("get_sales_data", 1, products[1].product_id, Err(e)))
    /\ pc' = "finally"
    /\ UNCHANGED << connection, products, sales_data, fig, buttons, i,
                    dashboard_html, response >>

\* Mutant of LoopFetchOk: buttons.insert(0, ...) in place of append.
LoopFetchOk_prepend ==
    /\ pc = "loop"
    /\ i <= Len(products)
    /\ connection # None
    /\ \E rows \in get_sales_data :
         /\ buttons' = << Button(products[i], rows) >> \o buttons
         /\ calls' = Append(calls,
                Call("get_sales_data", i, products[i].product_id, Ok(rows)))
    /\ i' = i + 1
    /\ UNCHANGED << pc, connection, products, sales_data, fig,
                    dashboard_html, response, exc >>

\* One iteration of `for product in products`: fetch, accumulate, append.
LoopFetchOk ==
    /\ pc = "loop"
    /\ i <= Len(products)
    /\ connection # None
    /\ \E rows \in get_sales_data :
         /\ buttons' = Append(buttons, Button(products[i], rows))
         /\ calls' = Append(calls,
                Call("get_sales_data", i, products[i].product_id, Ok(rows)))
    /\ i' = i + 1
    /\ UNCHANGED << pc, connection, products, sales_data, fig,
                    dashboard_html, response, exc >>

\* Mutant of LoopFetchFail: `except: break`, the figure is returned with
\* the entries built so far.
LoopFetchFail_break ==
    /\ pc = "loop"
    /\ i <= Len(products)
    /\ \E e \in (IF connection = None THEN {"AttributeError"} ELSE DbErrors) :
         calls' = Append(calls,
                Call("get_sales_data", i, products[i].product_id, Err(e)))
    /\ i' = Len(products) + 1
    /\ UNCHANGED << pc, connection, products, sales_data, fig, buttons,
                    dashboard_html, response, exc >>

\* Mutant of LoopFetchFail: `except: continue`, the product is skipped and
\* the next one is fetched.
LoopFetchFail_continue ==
    /\ pc = "loop"
    /\ i <= Len(products)
    /\ \E e \in (IF connection = None THEN {"AttributeError"} ELSE DbErrors) :
         calls' = Append(calls,
                Call("get_sales_data", i, products[i].product_id, Err(e)))
    /\ i' = i + 1
    /\ UNCHANGED << pc, connection, products, sales_data, fig, buttons,
                    dashboard_html, response, exc >>

\* get_sales_data raises inside the loop: nothing catches it, the loop is
\* abandoned and control goes to finally of index().
LoopFetchFail ==
    /\ pc = "loop"
    /\ i <= Len(products)
    /\ \E e \in (IF connection = None THEN {"AttributeError"} ELSE DbErrors) :
         /\ exc' = Exception(e)
         /\ calls' = Append(calls,
                Call("get_sales_data", i, products[i].product_id, Err(e)))
    /\ pc' = "finally"
    /\ UNCHANGED << connection, products, sales_data, fig, buttons, i,
                    dashboard_html, response >>

\* The loop is exhausted: fig.update_layout(updatemenus=...) and
\* return fig.to_html(...).
DashboardReturn ==
    /\ pc = "loop"
    /\ i > Len(products)
    /\ dashboard_html' = to_html(fig, buttons)
    /\ pc' = "render"
    /\ UNCHANGED << connection, products, sales_data, fig, buttons, i,
                    response, exc, calls >>

\* ---------------------------------------------------------------- main.py
\* return render_template_string(html_template, dashboard_html=...)
RenderOk ==
    /\ pc = "render"
    /\ response' = [page |-> "Sales Dashboard", dashboard_html |-> dashboard_html]
    /\ pc' = "finally"
    /\ UNCHANGED << connection, products, sales_data, fig, buttons, i,
                    dashboard_html, exc, calls >>

\* render_template_string raises.
RenderFail ==
    /\ pc = "render"
    /\ \E e \in RenderErrors : exc' = Exception(e)
    /\ pc' = "finally"
    /\ UNCHANGED << connection, products, sales_data, fig, buttons, i,
                    dashboard_html, response, calls >>

\* Mutant of Finally: db.disconnect() sits at the end of the try block, so
\* it runs only when nothing was raised.
Finally_onSuccessOnly ==
    /\ pc = "finally"
    /\ connection' = IF exc = NoException THEN disconnect(connection)
                                          ELSE connection
    /\ calls' = IF exc = NoException
                THEN Append(calls, Call("disconnect", 0, 0, Ok(None)))
                ELSE calls
    /\ pc' = IF exc = NoException THEN "returned" ELSE "raised"
    /\ UNCHANGED << products, sales_data, fig, buttons, i, dashboard_html,
                    response, exc >>

\* finally: db.disconnect(); then the handler returns or re-raises.
Finally ==
    /\ pc = "finally"
    /\ connection' = disconnect(connection)
    /\ calls' = Append(calls, Call("disconnect", 0, 0, Ok(None)))
    /\ pc' = IF exc = NoException THEN "returned" ELSE "raised"
    /\ UNCHANGED << products, sales_data, fig, buttons, i, dashboard_html,
                    response, exc >>

Next ==
    \/ ConnectOk
    \/ ConnectFail
    \/ GetAllProductsOk
    \/ GetAllProductsFail
    \/ DashboardNoProducts
    \/ FirstFetchOk
    \/ FirstFetchFail
    \/ LoopFetchOk
    \/ LoopFetchFail
    \/ DashboardReturn
    \/ RenderOk
    \/ RenderFail
    \/ Finally

Spec == Init /\ [][Next]_vars

\* ------------------------------------------ the plot functions run alone
\* create_sales_plot and the body of the selector loop applied to the same
\* rows of one product, outside of a request.
InitPlot ==
    /\ pc = "create_sales_plot"
    /\ connection = None
    /\ \E p \in ProductRows : products = << p >>
    /\ sales_data \in SeriesInputs
    /\ fig = None
    /\ buttons = << >>
    /\ i = 1
    /\ dashboard_html = NoHtml
    /\ response = NoResponse
    /\ exc = NoException
    /\ calls = << >>

\* fig = create_sales_plot(sales_data, product_name)
PlotSeries ==
    /\ pc = "create_sales_plot"
    /\ fig' = create_sales_plot(sales_data, products[1].product_name)
    /\ pc' = "button"
    /\ UNCHANGED << connection, products, sales_data, buttons, i,
                    dashboard_html, response, exc, calls >>

\* The body of `for product in products` on the rows of that product.
ButtonSeries ==
    /\ pc = "button"
    /\ buttons' = Append(buttons, Button(products[i], sales_data))
    /\ i' = i + 1
    /\ pc' = "plotted"
    /\ UNCHANGED << connection, products, sales_data, fig, dashboard_html,
                    response, exc, calls >>

NextPlot == PlotSeries \/ ButtonSeries

SpecPlot == InitPlot /\ [][NextPlot]_vars

\* ------------------------------------------------------ derived notions
\* The get_sales_data calls made so far, in the order they were made.
FetchCalls == SelectSeq(calls, LAMBDA c : c.op = "get_sales_data")

\* The queries made so far (everything but connect / disconnect).
IsQuery(c) == c.op \in {"get_all_products", "get_sales_data"}

\* The rows the first get_sales_data call (for products[0]) returned.
FirstRows == FetchCalls[1].out.value

\* The get_sales_data call made by iteration k of the loop: the calls of a
\* build are connect, get_all_products, the first fetch, then the loop's.
LoopCall(k) == calls[k + 3]

\* The rows iteration k of the loop fetched.
LoopRows(k) == LoopCall(k).out.value

\* sales of rows[1] + ... + sales of rows[k], from the definition of a sum.
RECURSIVE SumTo(_, _)
SumTo(rows, k) == IF k = 0 THEN 0 ELSE rows[k].sales + SumTo(rows, k - 1)

\* y is the prefix-sum series of rows and x its dates, in the same order.
IsCumulativeOf(x, y, rows) ==
    /\ Len(y) = Len(rows)
    /\ Len(x) = Len(rows)
    /\ \A k \in 1..Len(rows) :
         /\ x[k] = rows[k].date
         /\ y[k] = SumTo(rows, k)
         /\ y[k] = (IF k = 1 THEN 0 ELSE y[k - 1]) + rows[k].sales

\* The build has returned a figure (a non-empty product list, no failure).
BuildReturnedFigure == dashboard_html.html = "figure"

\* Some get_sales_data call of this build has raised.
FetchFailed ==
    \E k \in 1..Len(calls) :
        calls[k].op = "get_sales_data" /\ ~calls[k].out.ok

\* The catalog query returned.
CatalogReturned ==
    \E k \in 1..Len(calls) : calls[k].op = "get_all_products" /\ calls[k].out.ok

\* db.connect() has succeeded.
ConnectSucceeded ==
    \E k \in 1..Len(calls) : calls[k].op = "connect" /\ calls[k].out.ok

HandlerExited == pc \in {"returned", "raised"}

\* ---------------------------------------------------------------- claims

\* C1: the cumulative series built from any rows in date order (amounts
\* negative, zero or positive), by create_sales_plot and by the selector
\* loop, is the prefix sum of the sales: y[1] = sales[1],
\* y[k] = y[k-1] + sales[k] = sales[1] + ... + sales[k], of the same length
\* as the rows and with the dates in the same order.
C1_PrefixSumLaw ==
    /\ pc \in {"button", "plotted"}
         => IsCumulativeOf(fig.x, fig.y, sales_data)
    /\ pc = "plotted"
         => IsCumulativeOf(buttons[1].x, buttons[1].y, sales_data)

C1_Witness ==
    /\ pc = "plotted"
    /\ Len(sales_data) = 3
    /\ sales_data[2].sales < 0
    /\ sales_data[3].sales = 0
    /\ fig.y = << 2, 1, 1 >>
    /\ buttons[1].y = << 2, 1, 1 >>
    /\ fig.x = << 1, 1, 2 >>

\* C2: in every returned figure the visible series equals, in dates and
\* values, the series of selector entry 0.
C2_VisibleEqualsEntry0 ==
    BuildReturnedFigure =>
        /\ dashboard_html.fig.x = dashboard_html.fig.updatemenus[1].x
        /\ dashboard_html.fig.y = dashboard_html.fig.updatemenus[1].y

C4_SelectorMatchesCatalog ==
    BuildReturnedFigure =>
        LET sel == dashboard_html.fig.updatemenus IN
        /\ Len(sel) = Len(products)
        /\ \A k \in 1..Len(products) :
             /\ sel[k].label = products[k].product_name
             /\ sel[k].title = Title(products[k].product_name)
             /\ LoopCall(k).op = "get_sales_data"
             /\ LoopCall(k).idx = k
             /\ LoopCall(k).product_id = products[k].product_id
             /\ IsCumulativeOf(sel[k].x, sel[k].y, LoopRows(k))

C4_Witness ==
    /\ BuildReturnedFigure
    /\ Len(products) = 2
    /\ products[1].product_name # products[2].product_name
    /\ dashboard_html.fig.updatemenus[1].y # dashboard_html.fig.updatemenus[2].y

\* C5: in a build that returned a figure, get_sales_data was called exactly
\* once for each position of the product list.
C5_FetchedOncePerProduct ==
    BuildReturnedFigure =>
        \A k \in 1..Len(products) :
            Cardinality({ j \in 1..Len(FetchCalls) : FetchCalls[j].idx = k }) = 1

\* C6: with an empty product list the build returns the no-data markup,
\* raises nothing and never calls get_sales_data.
C6_EmptyCatalogNoFetch ==
    CatalogReturned /\ products = << >> /\ pc # "dashboard" =>
        /\ dashboard_html = NoProducts
        /\ FetchCalls = << >>
        /\ pc = "render" => exc = NoException
        /\ pc = "returned" => response.dashboard_html = NoProducts

C6_Witness ==
    /\ pc = "returned"
    /\ CatalogReturned
    /\ products = << >>
    /\ response.dashboard_html = NoProducts

\* C7: once connect() has succeeded, the handler never exits with the
\* connection open: disconnect() has run, the connector holds no connection,
\* and no query follows the disconnect.
C7_ConnectionReleased ==
    /\ HandlerExited /\ ConnectSucceeded =>
         /\ connection = None
         /\ \E k \in 1..Len(calls) : calls[k].op = "disconnect"
    /\ \A a \in 1..Len(calls) :
         calls[a].op = "disconnect" =>
            \A b \in (a + 1)..Len(calls) : ~IsQuery(calls[b])

C7_Witness ==
    /\ pc = "raised"
    /\ ConnectSucceeded
    /\ FetchFailed
    /\ connection = None
    /\ calls[Len(calls)].op = "disconnect"

\* C8: the visible chart of a returned figure is that of products[0]: its
\* title names products[0] and its series is the cumulative series of the
\* rows fetched for products[0] before the loop.
C8_VisibleIsFirstProduct ==
    BuildReturnedFigure =>
        /\ dashboard_html.fig.title = Title(products[1].product_name)
        /\ FetchCalls[1].product_id = products[1].product_id
        /\ IsCumulativeOf(dashboard_html.fig.x, dashboard_html.fig.y, FirstRows)

C8_Witness ==
    /\ BuildReturnedFigure
    /\ Len(products) = 2
    /\ products[1] # products[2]
    /\ Len(FirstRows) = 2
    /\ dashboard_html.fig.y # dashboard_html.fig.updatemenus[2].y

\* C9: a fetch that returns no rows is not an error: no exception is in
\* flight unless a call raised, the entry built from no rows has empty dates
\* and an empty series, and every other entry still is the cumulative series
\* of its own rows.
C9_EmptySeriesIsNotAnError ==
    /\ exc # NoException =>
         \/ exc.type \in RenderErrors
         \/ \E k \in 1..Len(calls) : ~calls[k].out.ok
    /\ BuildReturnedFigure =>
         LET sel == dashboard_html.fig.updatemenus IN
         /\ FirstRows = << >> =>
              dashboard_html.fig.x = << >> /\ dashboard_html.fig.y = << >>
         /\ \A k \in 1..Len(sel) :
              IF LoopRows(k) = << >>
              THEN sel[k].x = << >> /\ sel[k].y = << >>
              ELSE /\ sel[k].x = DatesOf(LoopRows(k))
                   /\ Len(sel[k].y) = Len(LoopRows(k))
                   /\ sel[k].y[Len(sel[k].y)]
                        = SumTo(LoopRows(k), Len(LoopRows(k)))

C9_Witness ==
    /\ pc = "returned"
    /\ BuildReturnedFigure
    /\ Len(products) = 2
    /\ FirstRows = << >>
    /\ LoopRows(1) = << >>
    /\ LoopRows(2) # << >>
    /\ dashboard_html.fig.updatemenus[1].y = << >>
    /\ dashboard_html.fig.updatemenus[2].y # << >>

\* C10: the fetches of a build are issued in catalog order, never skipping
\* a product, and no fetch is issued after one that raised.
C10_FetchesInOrderStopAtFailure ==
    LET fc == FetchCalls IN
    /\ fc # << >> => fc[1].idx = 1
    /\ \A a \in 1..(Len(fc) - 1) :
         /\ fc[a].out.ok
         /\ fc[a].idx <= fc[a + 1].idx
         /\ fc[a + 1].idx <= fc[a].idx + 1
         /\ a >= 2 => fc[a + 1].idx = fc[a].idx + 1
    /\ \A a \in 1..Len(fc) :
         /\ fc[a].idx \in 1..Len(products)
         /\ fc[a].product_id = products[fc[a].idx].product_id

C10_Witness ==
    /\ pc = "raised"
    /\ Len(products) = 2
    /\ Len(FetchCalls) = 2
    /\ ~FetchCalls[2].out.ok
    /\ FetchCalls[2].idx = 1

====
